---- MODULE Spec2Model ----
(***************************************************************************)
(* The Gatekeeper of the tower (teos/src/gatekeeper.rs): user              *)
(* subscriptions, the slot ledger, the outdated-users cache and the        *)
(* mirror of every mutation in the database manager (DBM).                 *)
(*                                                                         *)
(* Maps (HashMap) are functions whose DOMAIN is the key set; a Vec<UUID>   *)
(* built from HashMap keys has no defined order and is kept as a set.      *)
(* u32 arithmetic is kept at a reduced width: U32_MAX stands for u32::MAX  *)
(* and every wrapping operation is taken modulo U32_MAX + 1.               *)
(***************************************************************************)
EXTENDS Integers, FiniteSets, Sequences, TLC

\* ---------------------------------------------------------------- bounds

\* u32::MAX at the width of the model.
U32_MAX == 7
\* Blocks handed to the chain listener past the highest outdate height, where
\* the subscriptions are followed block by block.
MaxBlocksPast == 1
\* Highest block height handed to the chain listener and to the cache.
MaxHeight == 13
\* Successful add_update_user calls per user between creation and removal
\* whose slots are added up exactly; a higher total is kept as MaxGrants *
\* subscription_slots + 1.
MaxGrants == 3
\* Turns of the polling loop of expose_onion_service that find the shutdown
\* signal not triggered.
MaxPolls == 3

\* ------------------------------------------------------------- constants

\* teos_common::constants (imported at gatekeeper.rs:11).
OUTDATED_USERS_CACHE_SIZE_BLOCKS == 10
ENCRYPTED_BLOB_MAX_SIZE == 2048

UserIds == {"u1", "u2"}
UUIDs == {"a1", "a2"}
\* encrypted_blob().len() of the appointments handed in: one slot, two slots.
BlobLens == {1, ENCRYPTED_BLOB_MAX_SIZE + 1}
\* Constructor arguments of Gatekeeper::new.
SlotsChoices == {0, 3}
DurationChoices == {0, 1}
DeltaChoices == {1}
StartHeights == {1}

VARIABLES
    last_known_block_header,  \* height of the last known block header
    subscription_slots,
    subscription_duration,
    expiry_delta,
    registered_users,         \* UserId -> UserInfo
    outdated_users_cache,     \* height -> (UserId -> set of UUID)
    dbm,                      \* the users table of the DBM: UserId -> UserInfo
    dbm_poisoned,             \* the Mutex of the DBM is poisoned: every lock().unwrap() panics
    ret,                      \* the last call, its arguments and what it returned
    grants,                   \* UserId -> slots granted since creation: subscription_slots
                              \* per successful add_update_user, MaxGrants *
                              \* subscription_slots + 1 for every higher total
    processed,                \* heights update_outdated_users_cache has been called with
    direct_calls,             \* update_outdated_users_cache was called outside block_connected
    authenticated,            \* the users authenticate_user has returned so far
    tor                       \* the call of expose_onion_service, the Tor daemon and the signal

vars == <<last_known_block_header, subscription_slots, subscription_duration,
          expiry_delta, registered_users, outdated_users_cache, dbm, ret, grants,
          processed, direct_calls, authenticated, tor, dbm_poisoned>>

\* Everything the Gatekeeper holds, with the record of its calls.
gatekeeper_vars ==
    <<last_known_block_header, subscription_slots, subscription_duration,
      expiry_delta, registered_users, outdated_users_cache, dbm, ret, grants,
      processed, direct_calls, authenticated, dbm_poisoned>>

config == <<subscription_slots, subscription_duration, expiry_delta>>

\* --------------------------------------------------------------- helpers

EmptyMap == <<>>

MapRemove(m, k) == [x \in DOMAIN m \ {k} |-> m[x]]

MapRemoveAll(m, ks) == [x \in DOMAIN m \ ks |-> m[x]]

MapPut(m, k, v) == (k :> v) @@ m

RECURSIVE SumValues(_)
SumValues(m) ==
    IF DOMAIN m = {} THEN 0
    ELSE LET k == CHOOSE x \in DOMAIN m : TRUE
         IN m[k] + SumValues(MapRemove(m, k))

\* The last key where the first is meant.
MinOf_last(S) == CHOOSE x \in S : \A y \in S : x >= y

MinOf(S) == CHOOSE x \in S : \A y \in S : x <= y

MaxOf(S) == CHOOSE x \in S : \A y \in S : x >= y

\* `as u32` of a non-negative value: truncation to the width.
AsU32(x) == x % (U32_MAX + 1)

\* UserInfo::new
UserInfo_new(available_slots, subscription_expiry) ==
    [available_slots |-> available_slots,
     subscription_expiry |-> subscription_expiry,
     appointments |-> EmptyMap]

\* extended_appointment::compute_appointment_slots: ceil(blob_size / blob_max_size)
compute_appointment_slots(blob_size, blob_max_size) ==
    (blob_size + blob_max_size - 1) \div blob_max_size

\* What a call leaves in `ret`: the operation, the users it names or touches,
\* its uuid, height and blob length (where it has them), its result, the value
\* it returns, the value of available_slots it computed before any truncation,
\* and the users of the cache entry it evicted. For the receipt and for
\* has_subscription_expired: the expiry and the flag returned. For the calls
\* compared with the call before them: whether the call before was the same
\* call with the same arguments (repeat), the available_slots of the user and
\* the slots bound to the uuid when the call was made (before, used), the
\* map handed to delete_appointments, the signature handed to
\* authenticate_user, and the map (UserId -> set of UUID) that
\* get_outdated_users or a direct update_outdated_users_cache returns. For the
\* operations that write registered_users, the cache or the DBM, and for
\* get_outdated_users: the borrows, releases and writes of the call, in the
\* order in which the code makes them (events).
Ret(op, users, result) ==
    [op |-> op, users |-> users, uuid |-> "", height |-> -1, len |-> 0,
     result |-> result, value |-> 0, unwrapped |-> 0, evicted |-> {},
     expiry |-> -1, expired |-> FALSE, repeat |-> FALSE, before |-> 0, used |-> 0,
     appointments |-> <<>>, signature |-> "", outdated |-> <<>>, events |-> <<>>]

NoRet == Ret("new", {}, "Ok")

\* expose_onion_service before it is called: where the call stands (pc), what
\* it returned (result), whether the control connection is authenticated,
\* whether the onion service exists in the Tor daemon (onion), whether the
\* shutdown signal has been triggered, the key in use and the key file on
\* disk as the call has found or left it, and the turns of the polling loop.
TorIdle ==
    [pc |-> "idle", result |-> "", authenticated |-> FALSE, onion |-> FALSE,
     triggered |-> FALSE, key |-> "", key_file |-> "", polls |-> 0]

\* RefCell::borrow / borrow_mut of one of the two maps, the drop of the guard,
\* and a write to a map or to the DBM (store_user, update_user, remove_user).
Borrow(cell) == <<"borrow", cell>>

Release(cell) == <<"release", cell>>

Write(target) == <<"write", target>>

\* A call that borrows registered_users for its whole body and returns or
\* unwinds without writing.
BorrowedOnly == <<Borrow("registered_users"), Release("registered_users")>>

\* A call that writes the UserInfo and then the DBM row, both under the borrow
\* it took on entry.
BorrowedWriteThenPersist ==
    <<Borrow("registered_users"), Write("registered_users"), Write("dbm"),
      Release("registered_users")>>

\* A call that stores the DBM row and then inserts the UserInfo, both under the
\* borrow it took on entry.
BorrowedPersistThenWrite ==
    <<Borrow("registered_users"), Write("dbm"), Write("registered_users"),
      Release("registered_users")>>

\* ------------------------------------------------------------------- DBM

\* What the users table keeps of a UserInfo: the slot count and the expiry.
\* The appointments of a loaded user come from the appointments table, which
\* the Watcher writes and the Gatekeeper never does.
DBM_record(user_info) ==
    UserInfo_new(user_info.available_slots, user_info.subscription_expiry)

\* DBM::store_user: insert, an error if the user is already there.
DBM_store_user(db, user_id, user_info) ==
    IF user_id \in DOMAIN db
    THEN [ok |-> FALSE, db |-> db]
    ELSE [ok |-> TRUE, db |-> MapPut(db, user_id, DBM_record(user_info))]

\* DBM::update_user: rewrites the row of an existing user; the error for a
\* missing one is logged and nothing is written.
DBM_update_user(db, user_id, user_info) ==
    IF user_id \in DOMAIN db
    THEN [x \in DOMAIN db |->
            IF x = user_id
            THEN [db[x] EXCEPT !.available_slots = user_info.available_slots,
                               !.subscription_expiry = user_info.subscription_expiry]
            ELSE db[x]]
    ELSE db

\* DBM::remove_user
DBM_remove_user(db, user_id) == MapRemove(db, user_id)

\* ------------------------------------------------------------------ Init

\* Gatekeeper::new
Init ==
    /\ last_known_block_header \in StartHeights
    /\ subscription_slots \in SlotsChoices
    /\ subscription_duration \in DurationChoices
    /\ expiry_delta \in DeltaChoices
    /\ registered_users = EmptyMap
    /\ outdated_users_cache = EmptyMap
    /\ dbm = EmptyMap
    /\ dbm_poisoned = FALSE
    /\ ret = NoRet
    /\ grants = [u \in UserIds |-> 0]
    /\ processed = {}
    /\ direct_calls = FALSE
    /\ authenticated = {}
    /\ tor = TorIdle

\* --------------------------------------------------------------- queries

\* The messages and signatures handed to authenticate_user: the message the
\* users sign, each user's signature of it, and a string that is no signature.
Messages == {"message"}
Signatures == {"sig_u1", "sig_u2", "signature"}

\* cryptography::recover_pk: the key that signed the message, or an error.
recover_pk(message, signature) ==
    IF signature = "sig_u1" THEN [ok |-> TRUE, pk |-> "u1"]
    ELSE IF signature = "sig_u2" THEN [ok |-> TRUE, pk |-> "u2"]
    ELSE [ok |-> FALSE, pk |-> ""]

\* A lookup that finds every user.
contains_key_always(users, user_id) == TRUE

\* self.registered_users.borrow().contains_key(&user_id)
contains_key(users, user_id) == user_id \in DOMAIN users

\* Gatekeeper::authenticate_user
authenticate_user(message, signature) ==
    LET recovered == recover_pk(message, signature)
        call == [Ret("authenticate_user", {}, "Ok") EXCEPT !.signature = signature]
    IN /\ ret' = IF ~recovered.ok
                 THEN [call EXCEPT !.result = "Wrong message or signature."]
                 ELSE IF contains_key(registered_users, recovered.pk)
                      THEN [call EXCEPT !.users = {recovered.pk}]
                      ELSE [call EXCEPT !.result = "User not found."]
       /\ authenticated' = IF ret'.result = "Ok"
                           THEN authenticated \cup ret'.users
                           ELSE authenticated
       /\ UNCHANGED <<last_known_block_header, config, tor, dbm_poisoned, registered_users,
                      outdated_users_cache, dbm, grants, processed, direct_calls>>

\* An expiry test that lets the subscription live one block longer.
subscription_expired_late(height, subscription_expiry) == height > subscription_expiry

\* self.last_known_block_header.height >= user_info.subscription_expiry
subscription_expired(height, subscription_expiry) == height >= subscription_expiry

\* Gatekeeper::has_subscription_expired
has_subscription_expired(user_id) ==
    LET call == [Ret("has_subscription_expired", {user_id}, "Ok")
                   EXCEPT !.height = last_known_block_header]
    IN /\ ret' = IF user_id \in DOMAIN registered_users
                 THEN LET user_info == registered_users[user_id]
                      IN [call EXCEPT
                            !.expired = subscription_expired(
                                            last_known_block_header,
                                            user_info.subscription_expiry),
                            !.expiry = user_info.subscription_expiry]
                 ELSE [call EXCEPT !.result = "User not found."]
       /\ UNCHANGED <<last_known_block_header, config, authenticated, tor, dbm_poisoned, registered_users,
                      outdated_users_cache, dbm, grants, processed, direct_calls>>

\* ------------------------------------------------------- add_update_user

\* A checked_add that adds nothing.
checked_add_nothing(a, b) == [ok |-> TRUE, value |-> a]

\* A checked_add that wraps instead of failing.
checked_add_wrapping(a, b) == [ok |-> TRUE, value |-> AsU32(a + b)]

\* u32::checked_add
checked_add(a, b) ==
    IF a + b > U32_MAX THEN [ok |-> FALSE, value |-> 0]
    ELSE [ok |-> TRUE, value |-> a + b]

\* An expiry that forgets the tip.
new_subscription_expiry_from_genesis(block_count, duration) == duration

\* block_count + self.subscription_duration. The heights and durations of the
\* model stay below U32_MAX, so the sum is the one the code computes.
new_subscription_expiry(block_count, duration) == block_count + duration

\* A borrow under which the UserInfo is written and the call then panics at
\* self.dbm.lock().unwrap(), the Mutex being poisoned.
BorrowedWriteThenPanic ==
    <<Borrow("registered_users"), Write("registered_users"),
      Release("registered_users")>>

\* Gatekeeper::add_update_user
add_update_user(user_id) ==
    LET block_count == last_known_block_header
        expiry == new_subscription_expiry(block_count, subscription_duration)
        call == [Ret("add_update_user", {user_id}, "Ok")
                   EXCEPT !.height = block_count,
                          !.repeat = (ret.op = "add_update_user" /\ ret.users = {user_id}),
                          !.before = IF user_id \in DOMAIN registered_users
                                     THEN registered_users[user_id].available_slots
                                     ELSE 0]
    IN
    /\ IF user_id \in DOMAIN registered_users
       THEN LET old == registered_users[user_id]
                sum == checked_add(old.available_slots, subscription_slots)
                unwrapped == old.available_slots + subscription_slots
            IN IF ~sum.ok
               THEN \* ok_or(MaxSlotsReached)?: returns before anything is assigned
                    /\ ret' = [call EXCEPT !.result = "MaxSlotsReached",
                                           !.unwrapped = unwrapped,
                                           !.events = BorrowedOnly]
                    /\ UNCHANGED <<registered_users, dbm, grants, dbm_poisoned>>
               ELSE LET user_info == [old EXCEPT !.available_slots = sum.value,
                                                 !.subscription_expiry = expiry]
                    IN /\ registered_users' =
                              [registered_users EXCEPT ![user_id] = user_info]
                       /\ UNCHANGED dbm_poisoned
                       /\ IF dbm_poisoned
                          THEN \* the two fields are assigned, then lock().unwrap()
                               \* panics on the PoisonError
                               /\ dbm' = dbm
                               /\ UNCHANGED grants
                               /\ ret' = [call EXCEPT !.result = "panic",
                                                      !.unwrapped = unwrapped,
                                                      !.events = BorrowedWriteThenPanic]
                          ELSE /\ dbm' = DBM_update_user(dbm, user_id, user_info)
                               /\ grants' = [grants EXCEPT ![user_id] =
                                              IF @ + subscription_slots
                                                    <= MaxGrants * subscription_slots
                                              THEN @ + subscription_slots
                                              ELSE MaxGrants * subscription_slots + 1]
                               /\ ret' = [call EXCEPT
                                            !.value = user_info.available_slots,
                                            !.expiry = user_info.subscription_expiry,
                                            !.unwrapped = unwrapped,
                                            !.events = BorrowedWriteThenPersist]
       ELSE LET user_info == UserInfo_new(subscription_slots, expiry)
                stored == DBM_store_user(dbm, user_id, user_info)
            IN IF dbm_poisoned
               THEN \* lock().unwrap() panics on the PoisonError
                    /\ ret' = [call EXCEPT !.result = "panic", !.events = BorrowedOnly]
                    /\ UNCHANGED <<registered_users, dbm, grants, dbm_poisoned>>
               ELSE IF stored.ok
               THEN /\ dbm' = stored.db
                    /\ registered_users' = MapPut(registered_users, user_id, user_info)
                    /\ grants' = [grants EXCEPT ![user_id] = subscription_slots]
                    /\ ret' = [call EXCEPT !.value = user_info.available_slots,
                                           !.expiry = user_info.subscription_expiry,
                                           !.unwrapped = user_info.available_slots,
                                           !.events = BorrowedPersistThenWrite]
                    /\ UNCHANGED dbm_poisoned
               ELSE \* store_user(..).unwrap() on an Err: the call panics while
                    \* it holds the MutexGuard, which poisons the Mutex
                    /\ ret' = [call EXCEPT !.result = "panic", !.events = BorrowedOnly]
                    /\ dbm_poisoned' = TRUE
                    /\ UNCHANGED <<registered_users, dbm, grants>>
    /\ UNCHANGED <<last_known_block_header, config, authenticated, tor,
                   outdated_users_cache, processed, direct_calls>>

\* ------------------------------------------------ add_update_appointment

\* The test of add_update_appointment, off by one slot.
has_enough_slots_off_by_one(diff, available_slots) == diff <= available_slots + 1

\* The test of add_update_appointment: diff <= available_slots, in i64.
has_enough_slots(diff, available_slots) == diff <= available_slots

\* A lookup that finds no slots bound to the uuid.
used_slots_none(appointments, uuid) == 0

\* user_info.appointments.get(&uuid).map_or(0, |x| *x)
used_slots_of(appointments, uuid) ==
    IF uuid \in DOMAIN appointments THEN appointments[uuid] ELSE 0

\* Gatekeeper::add_update_appointment
add_update_appointment(user_id, uuid, blob_len) ==
    LET call == [Ret("add_update_appointment", {user_id}, "Ok")
                   EXCEPT !.uuid = uuid, !.len = blob_len,
                          !.repeat = (/\ ret.op = "add_update_appointment"
                                      /\ ret.users = {user_id}
                                      /\ ret.uuid = uuid
                                      /\ ret.len = blob_len)]
    IN
    /\ IF user_id \notin DOMAIN registered_users
       THEN \* borrowed.get_mut(&user_id).unwrap() on None: the call panics
            /\ ret' = [call EXCEPT !.result = "panic", !.events = BorrowedOnly]
            /\ UNCHANGED <<registered_users, dbm>>
       ELSE LET old == registered_users[user_id]
                used_slots == used_slots_of(old.appointments, uuid)
                required_slots ==
                    compute_appointment_slots(blob_len, ENCRYPTED_BLOB_MAX_SIZE)
                diff == required_slots - used_slots
            IN IF has_enough_slots(diff, old.available_slots)
               THEN LET user_info ==
                            [old EXCEPT
                               !.appointments = MapPut(@, uuid, required_slots),
                               !.available_slots = AsU32(@ - diff)]
                    IN /\ registered_users' =
                              [registered_users EXCEPT ![user_id] = user_info]
                       /\ IF dbm_poisoned
                          THEN \* the appointment and the slots are assigned, then
                               \* lock().unwrap() panics on the PoisonError
                               /\ dbm' = dbm
                               /\ ret' = [call EXCEPT
                                            !.result = "panic",
                                            !.before = old.available_slots,
                                            !.used = used_slots,
                                            !.unwrapped = old.available_slots - diff,
                                            !.events = BorrowedWriteThenPanic]
                          ELSE /\ dbm' = DBM_update_user(dbm, user_id, user_info)
                               /\ ret' = [call EXCEPT
                                            !.value = user_info.available_slots,
                                            !.before = old.available_slots,
                                            !.used = used_slots,
                                            !.unwrapped = old.available_slots - diff,
                                            !.events = BorrowedWriteThenPersist]
               ELSE /\ ret' = [call EXCEPT !.result = "NotEnoughSlots",
                                           !.before = old.available_slots,
                                           !.used = used_slots,
                                           !.events = BorrowedOnly]
                    /\ UNCHANGED <<registered_users, dbm>>
    /\ UNCHANGED <<last_known_block_header, config, authenticated, tor, dbm_poisoned, outdated_users_cache, grants,
                   processed, direct_calls>>

\* --------------------------------------------------- delete_appointments

\* A removal that hands the slots back twice.
refunded_twice(available_slots, x) == available_slots + 2 * x

\* A removal that hands no slot back.
refunded_nothing(available_slots, x) == available_slots

\* user_info.available_slots += x, before the width is applied.
refunded(available_slots, x) == available_slots + x

\* The first loop of Gatekeeper::delete_appointments, over the (uuid, user_id)
\* pairs in the order `order`. `available_slots += x` overflows as the build
\* decides: with overflow checks it panics (the appointment is already out of
\* the map), without them it wraps. `unwrapped` is the highest sum computed.
\* Every pair takes its own borrow_mut, dropped at the end of the statement.
RECURSIVE delete_loop(_, _, _, _, _, _, _)
delete_loop(users, appointments, order, updated_users, overflow_checks, unwrapped, events) ==
    IF order = <<>>
    THEN [users |-> users, updated_users |-> updated_users, panicked |-> FALSE,
          unwrapped |-> unwrapped, events |-> events]
    ELSE LET uuid == Head(order)
             user_id == appointments[uuid]
         IN IF user_id \notin DOMAIN users
            THEN delete_loop(users, appointments, Tail(order), updated_users,
                             overflow_checks, unwrapped, events \o BorrowedOnly)
            ELSE LET user_info == users[user_id]
                 IN IF uuid \notin DOMAIN user_info.appointments
                    THEN delete_loop(users, appointments, Tail(order),
                                     updated_users \cup {user_id}, overflow_checks,
                                     unwrapped, events \o BorrowedOnly)
                    ELSE LET x == user_info.appointments[uuid]
                             removed == [user_info EXCEPT
                                           !.appointments = MapRemove(@, uuid)]
                             sum == refunded(user_info.available_slots, x)
                             highest == IF sum > unwrapped THEN sum ELSE unwrapped
                             written == events \o <<Borrow("registered_users"),
                                                     Write("registered_users"),
                                                     Release("registered_users")>>
                         IN IF sum > U32_MAX /\ overflow_checks
                            THEN [users |-> [users EXCEPT ![user_id] = removed],
                                  updated_users |-> updated_users,
                                  panicked |-> TRUE,
                                  unwrapped |-> highest,
                                  events |-> written]
                            ELSE delete_loop(
                                   [users EXCEPT ![user_id] =
                                      [removed EXCEPT !.available_slots = AsU32(sum)]],
                                   appointments, Tail(order),
                                   updated_users \cup {user_id}, overflow_checks,
                                   highest, written)

\* A delete_appointments that never gets to its second loop.
delete_persist_skipped(db, users, updated_users) == db

\* The second loop of delete_appointments: update_user for every updated user.
\* On a poisoned Mutex the first lock().unwrap() panics and no row is written.
RECURSIVE delete_persist(_, _, _)
delete_persist(db, users, updated_users) ==
    IF updated_users = {} \/ dbm_poisoned THEN db
    ELSE LET user_id == CHOOSE u \in updated_users : TRUE
         IN delete_persist(DBM_update_user(db, user_id, users[user_id]),
                           users, updated_users \ {user_id})

\* The borrows and writes of the second loop: for every updated user the DBM
\* is locked, registered_users is borrowed for the argument, update_user is
\* called, and both guards are dropped at the end of the statement. The lock
\* comes first: on a poisoned Mutex the loop panics before any borrow.
RECURSIVE delete_persist_events(_)
delete_persist_events(updated_users) ==
    IF updated_users = {} \/ dbm_poisoned THEN <<>>
    ELSE LET user_id == CHOOSE u \in updated_users : TRUE
         IN <<Borrow("registered_users"), Write("dbm"), Release("registered_users")>>
               \o delete_persist_events(updated_users \ {user_id})

\* The orders in which a HashMap with these keys can be iterated.
Orders(keys) ==
    {s \in [1..Cardinality(keys) -> keys] : \A i, j \in DOMAIN s : i # j => s[i] # s[j]}

\* Gatekeeper::delete_appointments
delete_appointments(appointments, order, overflow_checks) ==
    LET done == delete_loop(registered_users, appointments, order, {},
                            overflow_checks, 0, <<>>)
        after_add == /\ ret.op = "add_update_appointment"
                     /\ ret.result = "Ok"
                     /\ DOMAIN appointments = {ret.uuid}
                     /\ ret.users = {appointments[ret.uuid]}
        call == [Ret("delete_appointments", done.updated_users, "Ok")
                   EXCEPT !.unwrapped = done.unwrapped,
                          !.appointments = appointments,
                          !.repeat = after_add,
                          !.before = IF after_add THEN ret.before ELSE 0,
                          !.used = IF after_add THEN ret.used ELSE 0]
    IN /\ registered_users' = done.users
       /\ IF done.panicked
          THEN /\ dbm' = dbm
               /\ ret' = [call EXCEPT !.result = "panic", !.events = done.events]
          ELSE IF dbm_poisoned /\ done.updated_users # {}
               THEN \* the second loop panics at its first lock().unwrap()
                    /\ dbm' = dbm
                    /\ ret' = [call EXCEPT !.result = "panic", !.events = done.events]
               ELSE /\ dbm' = delete_persist(dbm, done.users, done.updated_users)
                    /\ ret' = [call EXCEPT
                                 !.events = done.events
                                              \o delete_persist_events(done.updated_users)]
       /\ UNCHANGED <<last_known_block_header, config, authenticated, tor, dbm_poisoned, outdated_users_cache, grants,
                      processed, direct_calls>>

\* ----------------------------------------------- the outdated-users cache

\* A test that also takes the users whose outdate height has passed.
is_outdated_by(block_height, subscription_expiry, delta) ==
    block_height >= subscription_expiry + delta

\* block_height == user_info.subscription_expiry + self.expiry_delta
is_outdated_at(block_height, subscription_expiry, delta) ==
    block_height = subscription_expiry + delta

\* A get_outdated_users that finds nobody.
get_outdated_users_none(block_height) == EmptyMap

\* Gatekeeper::get_outdated_users
get_outdated_users(block_height) ==
    IF block_height \in DOMAIN outdated_users_cache
    THEN outdated_users_cache[block_height]
    ELSE LET outdated == {u \in DOMAIN registered_users :
                            is_outdated_at(block_height,
                                           registered_users[u].subscription_expiry,
                                           expiry_delta)}
         IN [u \in outdated |-> DOMAIN registered_users[u].appointments]

\* A get_outdated_users that borrows registered_users first.
get_outdated_users_events_users_first(block_height) ==
    <<Borrow("registered_users"), Borrow("outdated_users_cache"),
      Release("outdated_users_cache"), Release("registered_users")>>

\* The borrows of get_outdated_users: the cache on entry, held to the end of
\* the function; registered_users inside the None arm, for the loop.
get_outdated_users_events(block_height) ==
    IF block_height \in DOMAIN outdated_users_cache
    THEN <<Borrow("outdated_users_cache"), Release("outdated_users_cache")>>
    ELSE <<Borrow("outdated_users_cache"), Borrow("registered_users"),
           Release("registered_users"), Release("outdated_users_cache")>>

\* A call of the public get_outdated_users.
call_get_outdated_users(block_height) ==
    LET users == get_outdated_users(block_height)
    IN /\ ret' = [Ret("get_outdated_users", DOMAIN users, "Ok")
                    EXCEPT !.height = block_height, !.outdated = users,
                           !.events = get_outdated_users_events(block_height)]
       /\ UNCHANGED <<last_known_block_header, config, authenticated, tor, dbm_poisoned, registered_users,
                      outdated_users_cache, dbm, grants, processed, direct_calls>>

\* A limit test that lets the cache grow one entry too far.
cache_exceeds_late(len) == len > OUTDATED_USERS_CACHE_SIZE_BLOCKS + 1

\* borrowed.len() > OUTDATED_USERS_CACHE_SIZE_BLOCKS
cache_exceeds(len) == len > OUTDATED_USERS_CACHE_SIZE_BLOCKS

\* An eviction that removes the rows of the users of the entry just inserted.
evicted_user_ids_of_inserted(removed_entry, outdated_users) == DOMAIN outdated_users

\* The users whose rows the eviction removes: the keys of the entry taken out
\* of the cache, not those of the entry just inserted.
evicted_user_ids(removed_entry, outdated_users) == DOMAIN removed_entry

\* An eviction that leaves the DBM alone.
remove_evicted_users_kept(db, user_ids) == db

\* remove_user for every user of the evicted entry. On a poisoned Mutex the
\* first lock().unwrap() panics and no row is removed.
remove_evicted_users(db, user_ids) ==
    IF dbm_poisoned THEN db ELSE MapRemoveAll(db, user_ids)

\* Gatekeeper::update_outdated_users_cache: the cache and the DBM it leaves, the
\* map it returns, the users of the entry it evicted, and whether it panicked
\* at the lock().unwrap() of the eviction.
update_outdated_users_cache(block_height) ==
    IF block_height \in DOMAIN outdated_users_cache
    THEN [cache |-> outdated_users_cache, db |-> dbm, outdated_users |-> EmptyMap,
          evicted |-> {}, panicked |-> FALSE,
          events |-> <<Borrow("outdated_users_cache"), Release("outdated_users_cache")>>]
    ELSE LET outdated_users == get_outdated_users(block_height)
             borrowed == MapPut(outdated_users_cache, block_height, outdated_users)
             inserted == <<Borrow("outdated_users_cache"), Release("outdated_users_cache")>>
                           \o get_outdated_users_events(block_height)
                           \o <<Borrow("outdated_users_cache"),
                                Write("outdated_users_cache")>>
         IN IF cache_exceeds(Cardinality(DOMAIN borrowed))
            THEN LET first == MinOf(DOMAIN borrowed)
                     user_ids == evicted_user_ids(borrowed[first], outdated_users)
                 IN [cache |-> MapRemove(borrowed, first),
                     db |-> remove_evicted_users(dbm, user_ids),
                     outdated_users |-> outdated_users,
                     evicted |-> DOMAIN borrowed[first],
                     panicked |-> dbm_poisoned /\ user_ids # {},
                     events |-> inserted \o <<Write("outdated_users_cache")>>
                                  \o (IF dbm_poisoned THEN <<>>
                                      ELSE [i \in 1..Cardinality(user_ids)
                                              |-> Write("dbm")])
                                  \o <<Release("outdated_users_cache")>>]
            ELSE [cache |-> borrowed, db |-> dbm, outdated_users |-> outdated_users,
                  evicted |-> {}, panicked |-> FALSE,
                  events |-> inserted \o <<Release("outdated_users_cache")>>]

\* A call of the public update_outdated_users_cache from outside block_connected.
call_update_outdated_users_cache(block_height) ==
    LET r == update_outdated_users_cache(block_height)
    IN /\ outdated_users_cache' = r.cache
       /\ dbm' = r.db
       /\ processed' = processed \cup {block_height}
       /\ direct_calls' = TRUE
       /\ ret' = IF r.panicked
                 THEN \* the cache is written, nothing is returned
                      [Ret("update_outdated_users_cache", {}, "panic")
                         EXCEPT !.height = block_height, !.evicted = r.evicted,
                                !.events = r.events]
                 ELSE [Ret("update_outdated_users_cache", DOMAIN r.outdated_users, "Ok")
                         EXCEPT !.height = block_height, !.evicted = r.evicted,
                                !.outdated = r.outdated_users, !.events = r.events]
       /\ UNCHANGED <<last_known_block_header, config, authenticated, tor, dbm_poisoned, registered_users, grants>>

\* A block_connected that leaves the outdated users registered.
remove_outdated_users_kept(users, outdated_users) == users

\* A block_connected that removes every user, outdated or not.
remove_outdated_users_all(users, outdated_users) == EmptyMap

\* The loop of block_connected: registered_users.remove for every outdated user.
remove_outdated_users(users, outdated_users) ==
    MapRemoveAll(users, DOMAIN outdated_users)

\* The borrows and writes of that loop: one borrow_mut per removed user,
\* dropped at the end of the statement; nothing is written to the DBM.
RECURSIVE remove_outdated_users_events(_)
remove_outdated_users_events(outdated_users) ==
    IF outdated_users = EmptyMap THEN <<>>
    ELSE LET user_id == CHOOSE u \in DOMAIN outdated_users : TRUE
         IN <<Borrow("registered_users"), Write("registered_users"),
              Release("registered_users")>>
               \o remove_outdated_users_events(MapRemove(outdated_users, user_id))

\* chain::Listen::block_connected
block_connected(height) ==
    LET r == update_outdated_users_cache(height)
        outdated_users == r.outdated_users
    IN /\ outdated_users_cache' = r.cache
       /\ dbm' = r.db
       /\ registered_users' =
              IF r.panicked THEN registered_users  \* the loop is not reached
              ELSE remove_outdated_users(registered_users, outdated_users)
       /\ grants' = [u \in UserIds |->
                       IF u \in DOMAIN registered_users /\ u \notin DOMAIN registered_users'
                       THEN 0 ELSE grants[u]]
       /\ processed' = processed \cup {height}
       /\ ret' = IF r.panicked
                 THEN [Ret("block_connected", {}, "panic")
                         EXCEPT !.height = height, !.evicted = r.evicted,
                                !.events = r.events]
                 ELSE [Ret("block_connected", DOMAIN outdated_users, "Ok")
                         EXCEPT !.height = height, !.evicted = r.evicted,
                                !.events = r.events
                                  \o remove_outdated_users_events(outdated_users)]
       /\ UNCHANGED <<last_known_block_header, config, authenticated, tor, dbm_poisoned, direct_calls>>

\* chain::Listen::block_disconnected: todo!(), which panics whatever it is
\* handed.
block_disconnected(height) ==
    /\ ret' = [Ret("block_disconnected", {}, "panic") EXCEPT !.height = height]
    /\ UNCHANGED <<last_known_block_header, config, authenticated, tor, dbm_poisoned, registered_users,
                   outdated_users_cache, dbm, grants, processed, direct_calls>>

\* ------------------------------------------------- expose_onion_service

\* triggered::Trigger::trigger, by whoever shuts the tower down: the signal is
\* set once and never reset.
trigger ==
    /\ ~tor.triggered
    /\ tor' = [tor EXCEPT !.triggered = TRUE]
    /\ UNCHANGED gatekeeper_vars

\* The call of expose_onion_service, up to its first await.
expose_onion_service ==
    /\ tor.pc = "idle"
    /\ tor' = [tor EXCEPT !.pc = "connect_tor_cp"]
    /\ UNCHANGED gatekeeper_vars

\* connect_tor_cp: TcpStream::connect, its error mapped to ConnectionRefused
\* and returned by the `?` of expose_onion_service.
connect_tor_cp(connected) ==
    /\ tor.pc = "connect_tor_cp"
    /\ tor' = IF connected
              THEN [tor EXCEPT !.pc = "load_protocol_info"]
              ELSE [tor EXCEPT !.pc = "returned", !.result = "ConnectionRefused"]
    /\ UNCHANGED gatekeeper_vars

\* unauth_conn.load_protocol_info().await.map_err(ConnectionRefused)?
load_protocol_info(loaded) ==
    /\ tor.pc = "load_protocol_info"
    /\ tor' = IF loaded
              THEN [tor EXCEPT !.pc = "make_auth_data"]
              ELSE [tor EXCEPT !.pc = "returned", !.result = "ConnectionRefused"]
    /\ UNCHANGED gatekeeper_vars

\* The outcomes of make_auth_data: an io::Error, no usable method, the data.
AuthData == {"Err", "None", "Some"}

\* pre_auth.make_auth_data()?.expect("failed to make auth data")
make_auth_data(auth_data) ==
    /\ tor.pc = "make_auth_data"
    /\ tor' = IF auth_data = "Err"
              THEN [tor EXCEPT !.pc = "returned", !.result = "io::Error"]
              ELSE IF auth_data = "None"
                   THEN [tor EXCEPT !.pc = "returned", !.result = "panic"]
                   ELSE [tor EXCEPT !.pc = "authenticate"]
    /\ UNCHANGED gatekeeper_vars

\* unauth_conn.authenticate(&auth_data).await.map_err(PermissionDenied)?
authenticate(accepted) ==
    /\ tor.pc = "authenticate"
    /\ tor' = IF accepted
              THEN [tor EXCEPT !.pc = "load_tor_key", !.authenticated = TRUE]
              ELSE [tor EXCEPT !.pc = "returned", !.result = "PermissionDenied"]
    /\ UNCHANGED gatekeeper_vars

\* What the key file holds when it is read: nothing readable, bytes that are
\* not a 64-byte key, a key.
KeyFiles == {"missing", "malformed", "key"}

\* load_tor_key(&path).await: the file is read and parsed; for a key not found
\* TorSecretKeyV3::generate() runs before the next await.
load_tor_key(key_file) ==
    /\ tor.pc = "load_tor_key"
    /\ tor' = IF key_file = "key"
              THEN [tor EXCEPT !.pc = "add_onion_v3", !.key = "loaded",
                               !.key_file = key_file]
              ELSE [tor EXCEPT !.pc = "store_tor_key", !.key = "generated",
                               !.key_file = key_file]
    /\ UNCHANGED gatekeeper_vars

\* How fs::write(path.join("onion_v3_sk"), key.as_bytes()) ends: the 64 bytes
\* are written; the file cannot be created or opened and the disk is left as
\* it was; the file is created or truncated and the write then fails, which
\* leaves fewer than 64 bytes.
WriteOutcomes == {"written", "not_created", "truncated"}

\* store_tor_key(&key, &path).await: the generated key is written; a failure
\* of fs::write is logged and nothing more.
store_tor_key(written) ==
    /\ tor.pc = "store_tor_key"
    /\ tor' = [tor EXCEPT !.pc = "add_onion_v3",
                          !.key_file = CASE written = "written" -> "key"
                                         [] written = "truncated" -> "malformed"
                                         [] OTHER -> @]
    /\ UNCHANGED gatekeeper_vars

\* auth_conn.add_onion_v3(..).await.map_err(Other)?: the service is created,
\* or the error is returned and the control connection dropped.
add_onion_v3(added) ==
    /\ tor.pc = "add_onion_v3"
    /\ tor' = IF added
              THEN [tor EXCEPT !.pc = "loop", !.onion = TRUE]
              ELSE [tor EXCEPT !.pc = "returned", !.result = "Other"]
    /\ UNCHANGED gatekeeper_vars

\* if shutdown_signal_tor.is_triggered() { break; }
leaves_loop(triggered) == triggered

\* One turn of the loop: sleep(1 s), then the test of the signal.
poll ==
    /\ tor.pc = "loop"
    /\ IF leaves_loop(tor.triggered)
       THEN tor' = [tor EXCEPT !.pc = "del_onion"]
       ELSE /\ tor.polls < MaxPolls
            /\ tor' = [tor EXCEPT !.polls = @ + 1]
    /\ UNCHANGED gatekeeper_vars

\* auth_conn.del_onion(..).await.unwrap(); Ok(()). On an Err the unwrap panics;
\* the unwinding drops the control connection, and the service, which is not
\* detached, goes with it.
del_onion(deleted) ==
    /\ tor.pc = "del_onion"
    /\ tor' = [tor EXCEPT !.pc = "returned", !.onion = FALSE,
                          !.result = IF deleted THEN "Ok" ELSE "panic"]
    /\ UNCHANGED gatekeeper_vars

\* ---------------------------------------------------------------- inputs

\* The highest height the Gatekeeper has seen: in the cache or as its tip.
HighestSeen == MaxOf(DOMAIN outdated_users_cache \cup {last_known_block_header})

\* Heights a caller hands in. The chain listener is called in chain order, so
\* a new height is the one after the highest seen; a caller may also repeat a
\* height or go back to any lower one, those up to the tip included.
HeightInputs(max_height) ==
    {h \in 0..max_height : h <= HighestSeen + 1}

\* (user, uuid, blob length) of the appointments handed in, all for the first
\* user: one uuid with either length, the other with two slots.
AppointmentInputs ==
    ({"u1"} \X {"a1"} \X BlobLens) \cup {<<"u1", "a2", ENCRYPTED_BLOB_MAX_SIZE + 1>>}

\* The heights at which a subscription taken at the initial tip is outdated.
OutdatingHeights ==
    {t + subscription_duration + expiry_delta : t \in StartHeights}

\* Maps handed to delete_appointments.
AppointmentMaps == UNION {[ks -> UserIds] : ks \in SUBSET UUIDs}

\* The subscriptions and their slots under a fixed tip, with the chain listener
\* called at the heights where these subscriptions are outdated.
Next ==
    \/ \E u \in UserIds : add_update_user(u)
    \/ \E i \in AppointmentInputs : add_update_appointment(i[1], i[2], i[3])
    \/ \E m \in AppointmentMaps : \E o \in Orders(DOMAIN m), c \in BOOLEAN :
         delete_appointments(m, o, c)
    \/ \E h \in OutdatingHeights : block_connected(h)

Spec == Init /\ [][Next]_vars

\* The users, the appointment and the maps of the cache rotation.
CacheUserIds == {"u1", "u2"}
CacheAppointmentInputs == {<<"u1", "a1", 1>>}
CacheAppointmentMaps == {EmptyMap, "a1" :> "u1"}

\* The rotation of the outdated-users cache under a fixed tip: users register
\* and renew, and the cache is updated by the chain listener and by direct
\* calls, with heights that run from below the tip up to MaxHeight.
\* add_update_appointment and delete_appointments create and remove neither a
\* user, a cache entry nor a row of the DBM; they are followed in Spec,
\* SpecExpiry, SpecAuth and SpecPurge.
NextCache ==
    \/ \E u \in CacheUserIds : add_update_user(u)
    \/ \E h \in HeightInputs(MaxHeight) : call_update_outdated_users_cache(h)
    \/ \E h \in HeightInputs(MaxHeight) : block_connected(h)

SpecCache == Init /\ [][NextCache]_vars

\* The highest height handed in while the subscriptions are followed block by
\* block: MaxBlocksPast blocks past the highest outdate height of a
\* subscription.
MaxOutdatingHeight ==
    MaxOf(StartHeights) + MaxOf(DurationChoices) + MaxOf(DeltaChoices) + MaxBlocksPast

\* The subscriptions block by block: users register, renew and send
\* appointments, the chain listener is called up to the heights where they are
\* outdated and past them, and the queries are asked in between.  The tip stays
\* where Gatekeeper::new put it: nothing in the Gatekeeper assigns the field.
NextExpiry ==
    \/ \E u \in CacheUserIds : add_update_user(u)
    \/ \E i \in CacheAppointmentInputs : add_update_appointment(i[1], i[2], i[3])
    \/ \E m \in CacheAppointmentMaps : \E o \in Orders(DOMAIN m), c \in BOOLEAN :
         delete_appointments(m, o, c)
    \/ \E h \in HeightInputs(MaxOutdatingHeight) : block_connected(h)
    \/ \E u \in CacheUserIds : has_subscription_expired(u)
    \/ \E h \in 0..MaxOutdatingHeight : call_get_outdated_users(h)
    \/ \E h \in HeightInputs(MaxOutdatingHeight) : block_disconnected(h)

SpecExpiry == Init /\ [][NextExpiry]_vars

\* The requests of the API: a request is authenticated, and the call it asks
\* for is made later, while users register and renew and the chain listener
\* removes the outdated users.
NextAuth ==
    \/ \E u \in CacheUserIds : add_update_user(u)
    \/ \E i \in CacheAppointmentInputs : add_update_appointment(i[1], i[2], i[3])
    \/ \E h \in HeightInputs(MaxOutdatingHeight) : block_connected(h)
    \/ \E m \in Messages, s \in Signatures : authenticate_user(m, s)

SpecAuth == Init /\ [][NextAuth]_vars

\* The height of the next block: the chain listener is called once for every
\* height, in increasing order.
NextBlock == MaxOf(processed \cup StartHeights) + 1

\* The purge of the users that stop renewing: users register and send
\* appointments, and block_connected is called once for every height in
\* increasing order, up to MaxHeight.
NextPurge ==
    \/ \E u \in CacheUserIds : add_update_user(u)
    \/ \E i \in CacheAppointmentInputs : add_update_appointment(i[1], i[2], i[3])
    \/ NextBlock <= MaxHeight /\ block_connected(NextBlock)

SpecPurge == Init /\ [][NextPurge]_vars

\* The onion service: one call of expose_onion_service against a Tor daemon
\* that may refuse any request, with the shutdown signal triggered at any time.
NextTor ==
    \/ trigger
    \/ expose_onion_service
    \/ \E connected \in BOOLEAN : connect_tor_cp(connected)
    \/ \E loaded \in BOOLEAN : load_protocol_info(loaded)
    \/ \E auth_data \in AuthData : make_auth_data(auth_data)
    \/ \E accepted \in BOOLEAN : authenticate(accepted)
    \/ \E key_file \in KeyFiles : load_tor_key(key_file)
    \/ \E written \in WriteOutcomes : store_tor_key(written)
    \/ \E added \in BOOLEAN : add_onion_v3(added)
    \/ poll
    \/ \E deleted \in BOOLEAN : del_onion(deleted)

SpecTor == Init /\ [][NextTor]_vars

\* The loop is left once the signal is triggered: each turn sleeps one second
\* and is then taken, as the Tor daemon answers every request.
FairSpecTor == SpecTor /\ WF_vars(poll) /\ WF_vars(\E deleted \in BOOLEAN : del_onion(deleted))

\* ---------------------------------------------------------------- claims

SlotsInUse(user_info) == SumValues(user_info.appointments)

InCache(user_id) ==
    \E h \in DOMAIN outdated_users_cache : user_id \in DOMAIN outdated_users_cache[h]

UnchangedState == UNCHANGED <<registered_users, outdated_users_cache, dbm>>

MutationDone ==
    /\ ret.op \in {"add_update_user", "add_update_appointment", "delete_appointments"}
    /\ ret.result = "Ok"

\* C1: for every registered user, available_slots plus the slots of its
\* appointments equals the slots granted to it since it was created
\* (subscription_slots per successful add_update_user); delete_appointments
\* hands slots back to available_slots and releases none for good.
C1_SlotConservation ==
    \A u \in DOMAIN registered_users :
        grants[u] <= MaxGrants * subscription_slots =>
            registered_users[u].available_slots + SlotsInUse(registered_users[u])
                = grants[u]

\* C2: an operation whose new available_slots would exceed u32::MAX is rejected
\* and leaves the state unchanged; it never stores the value modulo 2^32.
C2_NeverWraps ==
    [][ret'.unwrapped > U32_MAX =>
          /\ ret'.result \in {"MaxSlotsReached", "NotEnoughSlots"}
          /\ UnchangedState]_vars

\* C3: add_update_user for a registered user whose available_slots plus
\* subscription_slots overflows returns MaxSlotsReached and changes neither the
\* users in memory, nor the cache, nor the DBM.
C3_MaxSlotsReachedChangesNothing ==
    [][\A u \in UserIds :
          (/\ ret'.op = "add_update_user"
           /\ ret'.users = {u}
           /\ u \in DOMAIN registered_users
           /\ registered_users[u].available_slots + subscription_slots > U32_MAX)
          => (ret'.result = "MaxSlotsReached" /\ UnchangedState)]_vars

C3_Witness ==
    /\ ret.op = "add_update_user"
    /\ ret.result = "MaxSlotsReached"
    /\ \E u \in ret.users :
          /\ u \in DOMAIN registered_users
          /\ u \in DOMAIN dbm
          /\ registered_users[u].appointments # EmptyMap
          /\ dbm[u].available_slots = registered_users[u].available_slots

\* C4: add_update_appointment that needs more additional slots than the user
\* has available returns NotEnoughSlots and changes neither the users in memory,
\* nor the cache, nor the DBM.
C4_NotEnoughSlotsChangesNothing ==
    [][\A u \in UserIds :
          (/\ ret'.op = "add_update_appointment"
           /\ ret'.users = {u}
           /\ u \in DOMAIN registered_users
           /\ LET appointments == registered_users[u].appointments
                  used == IF ret'.uuid \in DOMAIN appointments
                          THEN appointments[ret'.uuid] ELSE 0
                  required == compute_appointment_slots(ret'.len,
                                                        ENCRYPTED_BLOB_MAX_SIZE)
              IN required - used > registered_users[u].available_slots)
          => (ret'.result = "NotEnoughSlots" /\ UnchangedState)]_vars

C4_Witness ==
    /\ ret.op = "add_update_appointment"
    /\ ret.result = "NotEnoughSlots"
    /\ \E u \in ret.users :
          /\ u \in DOMAIN registered_users
          /\ ret.uuid \in DOMAIN registered_users[u].appointments
          /\ registered_users[u].available_slots = 0

\* C5: the cache never holds more than OUTDATED_USERS_CACHE_SIZE_BLOCKS entries,
\* and while fewer than that many distinct heights have been processed it holds
\* one entry per height processed.
C5_CacheSizeBound ==
    /\ Cardinality(DOMAIN outdated_users_cache) <= OUTDATED_USERS_CACHE_SIZE_BLOCKS
    /\ Cardinality(processed) < OUTDATED_USERS_CACHE_SIZE_BLOCKS
          => Cardinality(DOMAIN outdated_users_cache) = Cardinality(processed)

C5_Witness ==
    /\ Cardinality(processed) > OUTDATED_USERS_CACHE_SIZE_BLOCKS + 1
    /\ Cardinality(DOMAIN outdated_users_cache) = OUTDATED_USERS_CACHE_SIZE_BLOCKS
    /\ ret.op = "block_connected"
    /\ ret.height < MinOf(DOMAIN outdated_users_cache)

\* C6: once block_connected(h) has returned, no user whose subscription_expiry
\* plus expiry_delta equals h is left in registered_users.
C6_NoOutdatedUserLeft ==
    ret.op = "block_connected" =>
        \A u \in DOMAIN registered_users :
            registered_users[u].subscription_expiry + expiry_delta # ret.height

\* C7: when update_outdated_users_cache evicts a cache entry, no user of the
\* evicted entry has a row in the DBM once the call has returned.
C7_EvictedUsersLeaveTheStore ==
    [][/\ \A h \in DOMAIN outdated_users_cache \ DOMAIN outdated_users_cache' :
             \A u \in DOMAIN outdated_users_cache[h] : u \notin DOMAIN dbm'
       /\ \A u \in ret'.evicted : u \notin DOMAIN dbm']_vars

C7_Witness ==
    /\ Cardinality(ret.evicted) = 2
    /\ ret.evicted \cap DOMAIN dbm = {}
    /\ ret.height > MaxOf(processed \ {ret.height})

\* C8: a user with a row in the DBM is in registered_users or in some entry of
\* the cache; one that is in neither has no row.
C8_NoLeakedRow ==
    \A u \in UserIds :
        (u \notin DOMAIN registered_users /\ ~InCache(u)) => u \notin DOMAIN dbm

C8_Witness ==
    \E u \in ret.evicted :
        /\ u \notin DOMAIN registered_users
        /\ ~InCache(u)
        /\ u \notin DOMAIN dbm

\* C9 as claimed: after a successful mutation on a registered user, the UserInfo
\* loaded from the DBM equals the one in memory, appointments included.
C9_DurableEqualsMemory ==
    MutationDone =>
        \A u \in ret.users \cap DOMAIN registered_users :
            u \in DOMAIN dbm /\ dbm[u] = registered_users[u]

\* C9 as amended: after a successful mutation on a registered user, its row in
\* the DBM, when it has one, carries the available_slots and the
\* subscription_expiry the user has in memory.
C9_DurableSlotsAndExpiryEqualMemory ==
    MutationDone =>
        \A u \in ret.users \cap DOMAIN registered_users :
            u \in DOMAIN dbm =>
                /\ dbm[u].available_slots = registered_users[u].available_slots
                /\ dbm[u].subscription_expiry = registered_users[u].subscription_expiry

C9_Witness ==
    /\ MutationDone
    /\ ret.op = "delete_appointments"
    /\ Cardinality(ret.users) = 2
    /\ \A u \in ret.users :
          /\ u \in DOMAIN registered_users
          /\ u \in DOMAIN dbm
          /\ dbm[u].appointments = EmptyMap
          /\ dbm[u].available_slots = registered_users[u].available_slots
    /\ \E u \in ret.users : registered_users[u].appointments # EmptyMap

\* C10 as claimed: every user in registered_users or in some entry of the cache
\* has a row in the DBM.
C10_ReferencedUsersAreStored ==
    \A u \in UserIds :
        (u \in DOMAIN registered_users \/ InCache(u)) => u \in DOMAIN dbm

\* C10 as amended: as long as update_outdated_users_cache has been called by
\* block_connected alone, every user in registered_users or in some entry of the
\* cache has a row in the DBM.
C10_ReferencedUsersAreStoredUnderTheListener ==
    ~direct_calls => C10_ReferencedUsersAreStored

C10_Witness ==
    /\ ~direct_calls
    /\ Cardinality(processed) > OUTDATED_USERS_CACHE_SIZE_BLOCKS
    /\ \E u \in UserIds :
          /\ u \notin DOMAIN registered_users
          /\ InCache(u)
          /\ u \in DOMAIN dbm

\* The users other than u are the same users with the same UserInfo.
OthersUnchanged(u) ==
    \A v \in UserIds \ {u} :
        /\ v \in DOMAIN registered_users' <=> v \in DOMAIN registered_users
        /\ v \in DOMAIN registered_users => registered_users'[v] = registered_users[v]

\* C11: a successful add_update_user(u) at tip height h leaves u registered with
\* subscription_expiry = h + subscription_duration and available_slots =
\* subscription_slots plus what u had (0 for a new user), keeps u's
\* appointments (none for a new user), changes no other user, and its receipt
\* carries u's new available_slots and subscription_expiry.
C11_ReceiptCarriesThePostState ==
    [][\A u \in UserIds :
          (ret'.op = "add_update_user" /\ ret'.users = {u} /\ ret'.result = "Ok")
          => LET known == u \in DOMAIN registered_users
                 slots_before == IF known THEN registered_users[u].available_slots
                                 ELSE 0
                 appointments_before == IF known THEN registered_users[u].appointments
                                        ELSE EmptyMap
             IN /\ u \in DOMAIN registered_users'
                /\ registered_users'[u].subscription_expiry =
                       last_known_block_header + subscription_duration
                /\ registered_users'[u].available_slots =
                       subscription_slots + slots_before
                /\ registered_users'[u].appointments = appointments_before
                /\ OthersUnchanged(u)
                /\ ret'.value = registered_users'[u].available_slots
                /\ ret'.expiry = registered_users'[u].subscription_expiry]_vars

C11_Witness ==
    /\ ret.op = "add_update_user"
    /\ ret.result = "Ok"
    /\ ret.height > 0
    /\ ret.before > 0
    /\ ret.expiry = ret.height + subscription_duration
    /\ \E u \in ret.users :
          /\ registered_users[u].appointments # EmptyMap
          /\ DOMAIN registered_users # {u}

\* C12: add_update_user ends with a receipt or with MaxSlotsReached, also for a
\* user that block_connected has removed as outdated and whose row is still in
\* the DBM.
C12_ReceiptOrMaxSlotsReached ==
    ret.op = "add_update_user" => ret.result \in {"Ok", "MaxSlotsReached"}

\* C13: add_update_appointment(u, uuid, a) succeeds exactly when required - used
\* <= available_slots; a successful call binds uuid to required, takes
\* required - used from available_slots (hands slots back when required <
\* used), leaves u's other appointments, u's subscription_expiry and every
\* other user alone, and returns the new available_slots.
C13_AppointmentPostState ==
    [][\A u \in UserIds :
          (/\ ret'.op = "add_update_appointment"
           /\ ret'.users = {u}
           /\ u \in DOMAIN registered_users)
          => LET old == registered_users[u]
                 uuid == ret'.uuid
                 used == IF uuid \in DOMAIN old.appointments
                         THEN old.appointments[uuid] ELSE 0
                 required == compute_appointment_slots(ret'.len,
                                                       ENCRYPTED_BLOB_MAX_SIZE)
             IN /\ ret'.result = "Ok" <=> required - used <= old.available_slots
                /\ ret'.result = "Ok" =>
                      /\ u \in DOMAIN registered_users'
                      /\ registered_users'[u].appointments =
                             MapPut(old.appointments, uuid, required)
                      /\ registered_users'[u].available_slots =
                             old.available_slots - (required - used)
                      /\ registered_users'[u].subscription_expiry =
                             old.subscription_expiry
                      /\ OthersUnchanged(u)
                      /\ ret'.value = registered_users'[u].available_slots]_vars

\* C14: add_update_appointment(u, uuid, a) called again right after the same
\* call leaves the users in memory, the cache and the DBM as the first call
\* left them, and gives the same answer with the same available_slots.
C14_SecondApplicationChangesNothing ==
    [][(ret'.op = "add_update_appointment" /\ ret'.repeat)
          => /\ UnchangedState
             /\ ret'.result = ret.result
             /\ ret'.value = ret.value]_vars

C14_Witness ==
    /\ ret.op = "add_update_appointment"
    /\ ret.repeat
    /\ ret.result = "Ok"
    /\ ret.used = 2
    /\ \E u \in ret.users :
          /\ registered_users[u].appointments[ret.uuid] = 2
          /\ registered_users[u].available_slots = ret.value
          /\ dbm[u].available_slots = ret.value

\* The user of the one appointment handed to a delete_appointments that came
\* right after the successful add of that appointment.
DeletedAfterAdd(u) ==
    /\ ret.op = "delete_appointments"
    /\ ret.repeat
    /\ ret.result = "Ok"
    /\ \E uuid \in DOMAIN ret.appointments : ret.appointments[uuid] = u

\* C15 as claimed: a successful add_update_appointment(u, uuid, a) followed by
\* delete_appointments({uuid -> u}) leaves u with the available_slots it had
\* before the add.
C15_AddThenDeleteRestores ==
    \A u \in UserIds :
        DeletedAfterAdd(u) =>
            /\ u \in DOMAIN registered_users
            /\ registered_users[u].available_slots = ret.before

\* C15 as amended: it does so when the uuid was not bound to u before the add.
C15_AddOfNewThenDeleteRestores ==
    \A u \in UserIds :
        (DeletedAfterAdd(u) /\ ret.used = 0) =>
            /\ u \in DOMAIN registered_users
            /\ registered_users[u].available_slots = ret.before

C15_Witness ==
    \E u \in UserIds :
        /\ DeletedAfterAdd(u)
        /\ ret.used = 0
        /\ ret.users = {u}
        /\ ret.before = 2 * subscription_slots - 2
        /\ registered_users[u].available_slots = ret.before
        /\ registered_users[u].appointments # EmptyMap

\* C16 as stated: of consecutive add_update_user(u) calls for a registered
\* user, each one that succeeds leaves u with more available_slots than
\* before, each one that fails with MaxSlotsReached changes nothing, and after
\* one that failed with MaxSlotsReached the next one fails with
\* MaxSlotsReached as well.  A tower constructed with subscription_slots = 0
\* renews with the same count.
C16_RenewalMonotonicity ==
    [][\A u \in UserIds :
          (/\ ret'.op = "add_update_user"
           /\ ret'.users = {u}
           /\ ret'.repeat
           /\ u \in DOMAIN registered_users)
          => /\ ret'.result = "Ok" =>
                   /\ u \in DOMAIN registered_users'
                   /\ registered_users'[u].available_slots >
                          registered_users[u].available_slots
             /\ ret'.result = "MaxSlotsReached" => UnchangedState
             /\ ret.result = "MaxSlotsReached" => ret'.result = "MaxSlotsReached"]_vars

\* C16: of consecutive add_update_user(u) calls for a registered user, each
\* one that succeeds leaves u with exactly subscription_slots more
\* available_slots than before (strictly more when subscription_slots > 0, the
\* same count when it is 0), each one that fails with MaxSlotsReached changes
\* nothing, and after one that failed with MaxSlotsReached the next one fails
\* with MaxSlotsReached as well.
C16_RenewalAddsTheSlots ==
    [][\A u \in UserIds :
          (/\ ret'.op = "add_update_user"
           /\ ret'.users = {u}
           /\ ret'.repeat
           /\ u \in DOMAIN registered_users)
          => /\ ret'.result = "Ok" =>
                   /\ u \in DOMAIN registered_users'
                   /\ registered_users'[u].available_slots =
                          registered_users[u].available_slots + subscription_slots
                   /\ subscription_slots > 0 =>
                          registered_users'[u].available_slots >
                              registered_users[u].available_slots
             /\ ret'.result = "MaxSlotsReached" => UnchangedState
             /\ ret.result = "MaxSlotsReached" => ret'.result = "MaxSlotsReached"]_vars

\* A second consecutive renewal refused with MaxSlotsReached, after the
\* renewals before it added subscription_slots each.
C16_Witness ==
    /\ ret.op = "add_update_user"
    /\ ret.repeat
    /\ ret.result = "MaxSlotsReached"
    /\ subscription_slots > 0
    /\ ret.before = 2 * subscription_slots
    /\ \E u \in ret.users : registered_users[u].available_slots = ret.before

\* A renewal that succeeds for a tower that grants no slots: the count stays.
C16_NoSlotsRenewal ==
    /\ ret.op = "add_update_user"
    /\ ret.repeat
    /\ ret.result = "Ok"
    /\ subscription_slots = 0
    /\ \E u \in ret.users : registered_users[u].available_slots = ret.before

\* The uuids of the map m that delete_appointments can match for user u: the
\* pairs (uuid, u) with u registered and uuid among u's appointments.
Matching(m, u) ==
    {uuid \in DOMAIN m :
        /\ m[uuid] = u
        /\ u \in DOMAIN registered_users
        /\ uuid \in DOMAIN registered_users[u].appointments}

\* C17: delete_appointments raises no error for the pairs it cannot match,
\* creates and removes no user, and leaves the cache, every subscription_expiry
\* and every user without a matching pair as they were; a user with matching
\* pairs loses exactly those appointments and gets their slots back (as long
\* as the sum stays within u32, see C2).
C17_UnmatchedPairsAreIgnored ==
    [][ret'.op = "delete_appointments"
          => LET m == ret'.appointments
             IN /\ DOMAIN registered_users' = DOMAIN registered_users
                /\ outdated_users_cache' = outdated_users_cache
                /\ (\A u \in UserIds : Matching(m, u) = {}) => ret'.result = "Ok"
                /\ \A u \in DOMAIN registered_users :
                      LET old == registered_users[u]
                          new == registered_users'[u]
                          gone == [x \in Matching(m, u) |-> old.appointments[x]]
                      IN /\ new.subscription_expiry = old.subscription_expiry
                         /\ Matching(m, u) = {} => new = old
                         /\ ret'.result = "Ok" =>
                               new.appointments =
                                   MapRemoveAll(old.appointments, Matching(m, u))
                         /\ (ret'.result = "Ok" /\ ret'.unwrapped <= U32_MAX) =>
                               new.available_slots =
                                   old.available_slots + SumValues(gone)]_vars

C17_Witness ==
    /\ ret.op = "delete_appointments"
    /\ ret.result = "Ok"
    /\ ret.unwrapped > 0
    /\ ret.users # {}
    /\ \E uuid \in DOMAIN ret.appointments :
          ret.appointments[uuid] \notin DOMAIN registered_users
    /\ \E uuid \in DOMAIN ret.appointments :
          /\ ret.appointments[uuid] \in DOMAIN registered_users
          /\ registered_users[ret.appointments[uuid]].appointments # EmptyMap
    /\ \A u \in UserIds : u \in DOMAIN registered_users \/ InCache(u)

\* What a query leaves alone: everything the Gatekeeper holds.
QueryChangesNothing ==
    UNCHANGED <<last_known_block_header, config, registered_users,
                outdated_users_cache, dbm>>

\* C18: authenticate_user answers "Wrong message or signature." when no key is
\* recovered, "User not found." when the recovered user is not in
\* registered_users at the time of the call, and the recovered UserId
\* otherwise; the answer is a function of the signature and of the current
\* registered_users, and the call changes nothing.
C18_AuthenticationByCurrentRegistration ==
    [][ret'.op = "authenticate_user"
          => /\ QueryChangesNothing
             /\ \A m \in Messages :
                   LET recovered == recover_pk(m, ret'.signature)
                   IN IF ~recovered.ok
                      THEN ret'.result = "Wrong message or signature."
                      ELSE IF recovered.pk \in DOMAIN registered_users
                           THEN ret'.result = "Ok" /\ ret'.users = {recovered.pk}
                           ELSE ret'.result = "User not found."]_vars

C18_Witness ==
    /\ ret.op = "authenticate_user"
    /\ ret.result = "User not found."
    /\ \E m \in Messages :
          LET recovered == recover_pk(m, ret.signature)
          IN /\ recovered.ok
             /\ InCache(recovered.pk)
             /\ recovered.pk \in DOMAIN dbm
    /\ registered_users # EmptyMap

\* C19: has_subscription_expired(u) returns (tip >= subscription_expiry,
\* subscription_expiry) for a user in registered_users and "User not found."
\* for any other, and changes nothing.
C19_ExpiredFromTheTip ==
    [][\A u \in UserIds :
          (ret'.op = "has_subscription_expired" /\ ret'.users = {u})
          => /\ QueryChangesNothing
             /\ IF u \in DOMAIN registered_users
                THEN /\ ret'.result = "Ok"
                     /\ ret'.expired <=>
                           last_known_block_header >=
                               registered_users[u].subscription_expiry
                     /\ ret'.expiry = registered_users[u].subscription_expiry
                ELSE ret'.result = "User not found."]_vars

C19_Witness ==
    /\ ret.op = "has_subscription_expired"
    /\ ret.result = "Ok"
    /\ ret.expired
    /\ ret.expiry = last_known_block_header
    /\ \E u \in UserIds : u \notin DOMAIN registered_users /\ InCache(u)

\* C20: for a registered user whose subscription has expired (tip >=
\* subscription_expiry), add_update_appointment binds no appointment and takes
\* no slot: it does not succeed and the users stay as they were.
C20_ExpiredUserGetsNoService ==
    [][\A u \in UserIds :
          (/\ ret'.op = "add_update_appointment"
           /\ ret'.users = {u}
           /\ u \in DOMAIN registered_users
           /\ last_known_block_header >= registered_users[u].subscription_expiry)
          => /\ ret'.result # "Ok"
             /\ registered_users' = registered_users]_vars

\* The users now in registered_users that are outdated at exactly h, each with
\* the uuids of its appointments.
OutdatedAt(h) ==
    LET outdated == {u \in DOMAIN registered_users :
                        registered_users[u].subscription_expiry + expiry_delta = h}
    IN [u \in outdated |-> DOMAIN registered_users[u].appointments]

\* C21: get_outdated_users(h) changes nothing and returns the cache entry for h
\* when there is one, whoever is registered; otherwise the registered users
\* with subscription_expiry + expiry_delta = h, each with all its uuids, and
\* none whose outdate height is lower than h.
C21_OutdatedUsersOfTheHeight ==
    [][ret'.op = "get_outdated_users"
          => /\ QueryChangesNothing
             /\ ret'.outdated =
                   IF ret'.height \in DOMAIN outdated_users_cache
                   THEN outdated_users_cache[ret'.height]
                   ELSE OutdatedAt(ret'.height)
             /\ ret'.height \notin DOMAIN outdated_users_cache =>
                   \A u \in DOMAIN registered_users :
                       registered_users[u].subscription_expiry + expiry_delta
                           < ret'.height
                       => u \notin DOMAIN ret'.outdated]_vars

\* A miss that returns the users outdated at the height with their uuids. The
\* registered users of a run share one outdate height (the tip is assigned
\* only in new), so this state and the next one are two different states.
C21_Witness ==
    /\ ret.op = "get_outdated_users"
    /\ ret.height \notin DOMAIN outdated_users_cache
    /\ outdated_users_cache # EmptyMap
    /\ ret.outdated = OutdatedAt(ret.height)
    /\ \E u \in DOMAIN ret.outdated : ret.outdated[u] # {}

\* A miss that leaves out a registered user whose outdate height is lower,
\* while the cache holds an entry that differs from the users now outdated at
\* its height.
C21_LowerWitness ==
    /\ ret.op = "get_outdated_users"
    /\ ret.height \notin DOMAIN outdated_users_cache
    /\ \E u \in DOMAIN registered_users :
          /\ registered_users[u].subscription_expiry + expiry_delta < ret.height
          /\ u \notin DOMAIN ret.outdated
    /\ \E h \in DOMAIN outdated_users_cache :
          outdated_users_cache[h] # OutdatedAt(h)

\* C22: once block_connected(h) has been processed, no registered user has
\* subscription_expiry + expiry_delta <= h.
C22_NoUserOutdatedByTheHeight ==
    ret.op = "block_connected" =>
        \A u \in DOMAIN registered_users :
            registered_users[u].subscription_expiry + expiry_delta > ret.height

\* C24: block_connected and block_disconnected return to their caller, whatever
\* the height.
C24_ChainNotificationsReturn ==
    ret.op \in {"block_connected", "block_disconnected"} => ret.result = "Ok"

\* C25: once block_connected(_, h) has returned, a successful add_update_user
\* yields a subscription_expiry of at least h + subscription_duration.
C25_ReceiptNotOlderThanTheLastBlock ==
    (ret.op = "add_update_user" /\ ret.result = "Ok" /\ ~direct_calls) =>
        \A h \in processed : ret.expiry >= h + subscription_duration

\* C23: a registered user whose subscription has expired (the tip, or a block
\* handed to block_connected, is at or past its subscription_expiry) and who
\* calls add_update_user before block_connected has reached its old outdate
\* height keeps its appointments and gets an outdate height past the old one;
\* and block_connected(h) removes only users whose subscription_expiry +
\* expiry_delta equals h at the time of the call, leaving every other user as
\* it was, so the renewed user survives block_connected(old_expiry +
\* expiry_delta).
C23_GraceWindow ==
    [][/\ (/\ ret'.op = "add_update_user"
           /\ \E u \in DOMAIN registered_users :
                 /\ ret'.users = {u}
                 /\ \E h \in processed \cup {last_known_block_header} :
                       h >= registered_users[u].subscription_expiry
                 /\ \A h \in processed :
                       h < registered_users[u].subscription_expiry + expiry_delta)
          => \A u \in ret'.users :
                /\ u \in DOMAIN registered_users'
                /\ registered_users'[u].appointments = registered_users[u].appointments
                /\ registered_users'[u].subscription_expiry + expiry_delta
                      > registered_users[u].subscription_expiry + expiry_delta
       /\ ret'.op = "block_connected"
          => \A u \in DOMAIN registered_users :
                IF u \in DOMAIN registered_users'
                THEN registered_users'[u] = registered_users[u]
                ELSE registered_users[u].subscription_expiry + expiry_delta
                        = ret'.height]_vars

\* C26: update_outdated_users_cache(h) with h in the cache returns the empty
\* map and leaves the cache, registered_users and the DBM as they were,
\* whoever is outdated at h; with h not in the cache it returns the registered
\* users outdated at h with their uuids (the empty map if there are none) and
\* puts that map in the cache under h, where it stays unless the cache was
\* full and h is below every cached height; registered_users is not touched.
C26_CacheHitAndMiss ==
    [][ret'.op = "update_outdated_users_cache"
          => IF ret'.height \in DOMAIN outdated_users_cache
             THEN /\ ret'.outdated = EmptyMap
                  /\ UnchangedState
             ELSE /\ ret'.outdated = OutdatedAt(ret'.height)
                  /\ UNCHANGED registered_users
                  /\ IF ret'.height \in DOMAIN outdated_users_cache'
                     THEN outdated_users_cache'[ret'.height] = OutdatedAt(ret'.height)
                     ELSE /\ Cardinality(DOMAIN outdated_users_cache)
                               = OUTDATED_USERS_CACHE_SIZE_BLOCKS
                          /\ \A k \in DOMAIN outdated_users_cache : ret'.height < k
                          /\ outdated_users_cache' = outdated_users_cache]_vars

\* A hit while a user outdated at the height is registered, with an earlier
\* miss that cached a user and its uuids.
C26_Witness ==
    /\ ret.op = "update_outdated_users_cache"
    /\ ret.height \in DOMAIN outdated_users_cache
    /\ ret.outdated = EmptyMap
    /\ OutdatedAt(ret.height) # EmptyMap
    /\ \E h \in DOMAIN outdated_users_cache :
          \E u \in DOMAIN outdated_users_cache[h] : outdated_users_cache[h][u] # {}

\* C27: a call of update_outdated_users_cache(h), direct or from
\* block_connected, that finds h cached leaves the cached heights as they are;
\* one that inserts h and thereby exceeds OUTDATED_USERS_CACHE_SIZE_BLOCKS
\* entries removes exactly one entry, the lowest height among the cached ones
\* and h itself; otherwise h is added and nothing removed. The entries that
\* stay are not altered, and the cache never holds more than
\* OUTDATED_USERS_CACHE_SIZE_BLOCKS entries between calls.
C27_EvictionOrder ==
    [][ret'.op \in {"update_outdated_users_cache", "block_connected"}
          => LET h == ret'.height
                 before == DOMAIN outdated_users_cache
                 inserted == before \cup {h}
                 after == DOMAIN outdated_users_cache'
             IN /\ IF h \in before
                   THEN after = before
                   ELSE IF Cardinality(inserted) > OUTDATED_USERS_CACHE_SIZE_BLOCKS
                        THEN \E k \in inserted :
                                /\ \A j \in inserted : k <= j
                                /\ after = inserted \ {k}
                                /\ Cardinality(after) = Cardinality(inserted) - 1
                        ELSE after = inserted
                /\ \A j \in after \cap before :
                      outdated_users_cache'[j] = outdated_users_cache[j]
                /\ Cardinality(after) <= OUTDATED_USERS_CACHE_SIZE_BLOCKS]_vars

\* OUTDATED_USERS_CACHE_SIZE_BLOCKS + 1 heights processed, the highest last:
\* the first is gone, the later ones are cached.
C27_Witness ==
    /\ ret.op \in {"update_outdated_users_cache", "block_connected"}
    /\ ret.height = MaxOf(processed)
    /\ Cardinality(processed) = OUTDATED_USERS_CACHE_SIZE_BLOCKS + 1
    /\ \E first \in processed :
          /\ \A j \in processed : first <= j
          /\ DOMAIN outdated_users_cache = processed \ {first}

\* The borrows of `cell` taken and not yet released before event i.
Held(events, i, cell) ==
    Cardinality({j \in 1..(i - 1) : events[j] = Borrow(cell)})
        > Cardinality({j \in 1..(i - 1) : events[j] = Release(cell)})

\* Some event of the call happens while both maps are borrowed.
HoldsBoth(events) ==
    \E i \in DOMAIN events :
        /\ Held(events, i, "registered_users")
        /\ Held(events, i, "outdated_users_cache")

\* C28 as stated: an operation that holds registered_users and
\* outdated_users_cache at the same time has acquired registered_users first,
\* so registered_users is never borrowed while the cache is held.
C28_RegisteredUsersBeforeCache ==
    \A i \in DOMAIN ret.events :
        ret.events[i] = Borrow("registered_users")
            => ~Held(ret.events, i, "outdated_users_cache")

\* C28, amended: the only operations that hold both maps at once are
\* get_outdated_users and its callers, on a cache miss, and they acquire
\* outdated_users_cache before registered_users: the cache is never borrowed
\* while registered_users is held, so there is one order and no two
\* operations take the maps in opposite orders.
C28_CacheBeforeRegisteredUsers ==
    /\ \A i \in DOMAIN ret.events :
          ret.events[i] = Borrow("outdated_users_cache")
              => ~Held(ret.events, i, "registered_users")
    /\ HoldsBoth(ret.events)
          => ret.op \in {"get_outdated_users", "update_outdated_users_cache",
                         "block_connected"}

C28_Witness ==
    /\ ret.op = "block_connected"
    /\ ret.users # {}
    /\ HoldsBoth(ret.events)

\* C29: every write of a UserInfo in registered_users is matched by a write
\* to the DBM made under the same borrow (no release of registered_users
\* between the two), and every write to the DBM is made while one of the two
\* maps is borrowed.
C29_PersistedUnderTheBorrow ==
    ret.op \in {"add_update_user", "add_update_appointment", "delete_appointments",
                "update_outdated_users_cache", "block_connected"}
    => /\ \A i \in DOMAIN ret.events :
             ret.events[i] = Write("registered_users")
                 => \E j \in DOMAIN ret.events :
                       /\ ret.events[j] = Write("dbm")
                       /\ \A k \in DOMAIN ret.events :
                             ((i < k /\ k < j) \/ (j < k /\ k < i))
                                 => ret.events[k] # Release("registered_users")
       /\ \A i \in DOMAIN ret.events :
             ret.events[i] = Write("dbm")
                 => \/ Held(ret.events, i, "registered_users")
                    \/ Held(ret.events, i, "outdated_users_cache")

\* C30: add_update_appointment for a user that authenticate_user has returned
\* before finds the user and answers with the new available_slots or with
\* NotEnoughSlots, whatever was called in between.
C30_AuthenticatedUserIsFound ==
    (ret.op = "add_update_appointment" /\ ret.users \subseteq authenticated)
        => ret.result \in {"Ok", "NotEnoughSlots"}

\* The blocks are connected in order: no height is skipped.
ConnectedInOrder == processed = (MinOf(StartHeights) + 1)..(NextBlock - 1)

\* C31: with block_connected called once for every height in increasing order,
\* a registered user that stops renewing is eventually removed, at
\* block_connected(subscription_expiry + expiry_delta): so no registered user
\* has an outdate height among the heights already connected, where it would
\* stay registered for good.
C31_RemovedAtTheOutdateHeight ==
    \A u \in DOMAIN registered_users :
        registered_users[u].subscription_expiry + expiry_delta \notin processed

\* C31 for the users whose outdate height was still ahead when they
\* registered: block_connected(h) removes from registered_users exactly the
\* users with subscription_expiry + expiry_delta = h, who are then in the
\* cache under h with their row in the DBM, and removes from the DBM exactly
\* the users of the entry of h - OUTDATED_USERS_CACHE_SIZE_BLOCKS.
C31_PurgeSchedule ==
    [][ret'.op = "block_connected"
          => LET h == ret'.height
                 outdated == {u \in DOMAIN registered_users :
                                registered_users[u].subscription_expiry + expiry_delta = h}
                 old == h - OUTDATED_USERS_CACHE_SIZE_BLOCKS
                 purged == IF old \in DOMAIN outdated_users_cache
                           THEN DOMAIN outdated_users_cache[old] ELSE {}
             IN /\ ConnectedInOrder
                /\ DOMAIN registered_users' = DOMAIN registered_users \ outdated
                /\ DOMAIN outdated_users_cache'[h] = outdated
                /\ outdated \subseteq DOMAIN dbm'
                /\ DOMAIN dbm' = DOMAIN dbm \ purged
                /\ DOMAIN outdated_users_cache' =
                      {k \in processed' : k > old}]_vars

\* A user purged from the DBM OUTDATED_USERS_CACHE_SIZE_BLOCKS blocks after the
\* block that removed it from registered_users.
C31_PurgeWitness ==
    /\ ret.op = "block_connected"
    /\ ret.evicted # {}
    /\ ret.evicted \cap DOMAIN dbm = {}
    /\ ret.evicted \cap DOMAIN registered_users = {}

\* The errors expose_onion_service returns when the control port cannot be
\* reached or does not let it in.
ControlPortErrors == {"ConnectionRefused", "io::Error", "PermissionDenied"}

\* The steps up to the authentication with the control port.
BeforeAuthenticated ==
    {"connect_tor_cp", "load_protocol_info", "make_auth_data", "authenticate"}

\* C32: once the onion service is added, expose_onion_service neither deletes
\* it nor returns before the shutdown signal is triggered; with the signal
\* triggered, the next check leaves the loop, the service is deleted and the
\* call returns Ok; and a call that ends while connecting to or
\* authenticating with the control port returns an error, with no onion
\* service created.
C32_OnionServiceLifetime ==
    [][/\ (tor.onion /\ (~tor'.onion \/ tor'.pc = "returned")) => tor.triggered
       /\ (tor.pc = "loop" /\ tor.triggered /\ tor'.pc # "loop")
             => tor'.pc = "del_onion"
       /\ (tor.pc = "del_onion" /\ tor'.pc = "returned")
             => (~tor'.onion /\ tor'.result = "Ok")
       /\ (tor.pc \in BeforeAuthenticated /\ tor'.pc = "returned")
             => (tor'.result \in ControlPortErrors /\ ~tor'.onion)]_vars

\* C32, what holds whatever the Tor daemon answers: the service, once added,
\* stays until the signal is triggered; a check made with the signal
\* triggered leaves the loop for del_onion, after which the call has ended
\* and the service is gone; no service exists before the control connection
\* is authenticated; and a refused connection or authentication is returned
\* as an error.
C32_ServiceLivesUntilTheSignal ==
    [][/\ (tor.onion /\ (~tor'.onion \/ tor'.pc = "returned")) => tor.triggered
       /\ (tor.pc = "loop" /\ tor.triggered /\ tor'.pc # "loop")
             => tor'.pc = "del_onion"
       /\ (tor.pc = "del_onion" /\ tor' # tor)
             => (tor'.pc = "returned" /\ ~tor'.onion
                  /\ tor'.result \in {"Ok", "panic"})
       /\ tor'.onion => tor'.authenticated
       /\ (tor.pc \in {"connect_tor_cp", "load_protocol_info", "authenticate"}
             /\ tor'.pc = "returned")
             => (tor'.result \in ControlPortErrors /\ ~tor'.onion)]_vars

\* C32, the end of the call: with the service added and the signal triggered,
\* the call ends and the service is gone.
C32_ShutdownEndsTheCall ==
    (tor.onion /\ tor.triggered) ~> (tor.pc = "returned" /\ ~tor.onion)

\* The service has lived through turns of the loop and was deleted on the
\* signal, with a key generated because none was on disk.
C32_ServiceWitness ==
    /\ tor.pc = "returned"
    /\ tor.result = "Ok"
    /\ tor.polls > 0
    /\ tor.triggered
    /\ tor.key = "generated"

====
